---- MODULE Spec2Model ----
(***************************************************************************)
(* TrueCite: retrieval-augmented compliance auditing.                      *)
(*                                                                         *)
(* The model covers src/src/backend (auditor.py, extractor.py, main.py,    *)
(* ingestion.py) and the alternative ingestor src/src/true_cite/backend.   *)
(* Strings the code splits or strips are sequences of tokens: a marker, a  *)
(* run of whitespace or a word is one token, so that split() and strip()   *)
(* are computed as the code computes them.                                 *)
(***************************************************************************)
EXTENDS Naturals, Integers, Sequences, FiniteSets, TLC

\* ------------------------------------------------------------------ bounds
MaxTextLen == 3
MaxDocs == 2
MaxQuestions == 2
MaxStore == 3
MaxEntries == 2
MaxPages == 1
MaxCalls == 3
MaxCorpus == 6

\* -------------------------------------------------------------- vocabulary
\* Python's None, as the value dict.get() yields for a missing key.
None == "<None>"

MTHINKING == "**THINKING**:"
MSTATUS == "**STATUS**:"
MRATIONALE == "**RATIONALE**:"
MCITATION == "**EVIDENCE CITATION**:"
Markers == {MTHINKING, MSTATUS, MRATIONALE, MCITATION}

\* One run of whitespace.
WS == " "
Words == {"Compliant", "Maybe"}
Tokens == Markers \cup {WS} \cup Words

RECURSIVE SeqsUpTo(_, _)
SeqsUpTo(S, n) ==
    IF n = 0 THEN {<<>>}
    ELSE LET shorter == SeqsUpTo(S, n - 1)
         IN shorter \cup {Append(s, x) : s \in {t \in shorter : Len(t) = n - 1}, x \in S}

\* The response texts the LLM may produce.
Texts == SeqsUpTo(Tokens, MaxTextLen)

Range(s) == {s[i] : i \in 1..Len(s)}

\* ------------------------------------------------------------- str helpers
\* `sep in text`
Contains(text, sep) == sep \in Range(text)

\* Index of the first occurrence of sep in text, 0 when there is none.
FirstIndex(text, sep) ==
    IF Contains(text, sep)
    THEN CHOOSE i \in 1..Len(text) :
            text[i] = sep /\ \A j \in 1..(i - 1) : text[j] # sep
    ELSE 0

\* text.split(sep): the pieces between the occurrences of sep.
RECURSIVE Split(_, _)
Split(text, sep) ==
    LET i == FirstIndex(text, sep)
    IN IF i = 0 THEN <<text>>
       ELSE <<SubSeq(text, 1, i - 1)>> \o Split(SubSeq(text, i + 1, Len(text)), sep)

RECURSIVE LStrip(_)
LStrip(s) == IF s # <<>> /\ Head(s) = WS THEN LStrip(Tail(s)) ELSE s

RECURSIVE RStrip(_)
RStrip(s) ==
    IF s # <<>> /\ s[Len(s)] = WS THEN RStrip(SubSeq(s, 1, Len(s) - 1)) ELSE s

\* str.strip()
Strip(s) == RStrip(LStrip(s))

\* ------------------------------------------------------ auditor.py: parse
DefaultSections ==
    [thinking |-> <<"No thinking provided.">>,
     status |-> <<"Unknown">>,
     rationale |-> <<>>,
     citation |-> <<>>]

\* text.split(marker)[1].split(next)[0].strip()
SectionOf(text, marker, next) == Strip(Split(Split(text, marker)[2], next)[1])


\* The guards `if marker in text` keep every [1] inside the split list, so
\* the try block never reaches its except clause.
ParseStructuredResponse(text) ==
    [thinking |-> IF Contains(text, MTHINKING)
                  THEN SectionOf(text, MTHINKING, MSTATUS)
                  ELSE DefaultSections.thinking,
     status |-> IF Contains(text, MSTATUS)
                THEN SectionOf(text, MSTATUS, MRATIONALE)
                ELSE DefaultSections.status,
     rationale |-> IF Contains(text, MRATIONALE)
                   THEN SectionOf(text, MRATIONALE, MCITATION)
                   ELSE DefaultSections.rationale,
     citation |-> IF Contains(text, MCITATION)
                  THEN Strip(Split(text, MCITATION)[2])
                  ELSE DefaultSections.citation]

\* --------------------------------------------------------------- variables
VARIABLES
    \* one run_audit call (auditor.py)
    apc,            \* the step the call is at
    question,       \* its question argument
    retriever,      \* its retriever argument
    docs,           \* the chunks the retriever returned
    context_text,   \* format_docs(docs)
    response_text,  \* the LLM's answer
    parsed,         \* _parse_structured_response(response_text)
    exc,            \* the exception the try block raised, None when none
    result,         \* the AuditResult returned
    outcome         \* "none" | "returned" | "raised"

auditVars == <<apc, question, retriever, docs, context_text, response_text,
               parsed, exc, result, outcome>>

VARIABLES
    \* the policy index (ingestion.py: self.vectorstore)
    store,          \* the chunks of the Chroma collection, in insertion order
    \* one POST /audit/run request (main.py)
    bpc,            \* where the request is: the handler, then its generator
    extraction,     \* what the extractor met: the PDF load and the chain
    questions,      \* what extract_from_file returned
    bretriever,     \* the retriever the handler built
    http,           \* the response's status line
    stream,         \* the units the generator yielded so far
    qidx,           \* index of the question the generator is at
    audits_run      \* run_audit calls the generator made

bulkVars == <<bpc, extraction, questions, bretriever, http, stream, qidx,
              audits_run>>

VARIABLES
    \* one POST /ingest/policies request (main.py, ingestion.py)
    ipc,            \* where ingest_zip is
    archive,        \* the uploaded ZIP
    pdf_files,      \* the names ingest_zip selected
    iidx,           \* index of the name the loop is at
    total_chunks,   \* ingest_zip's running total
    counts,         \* what ingest_pdf returned for each name so far
    last,           \* the latest ingest_pdf call: what it met and did
    ihttp           \* the response

ingestVars == <<ipc, archive, pdf_files, iidx, total_chunks, counts, last, ihttp>>

VARIABLES
    \* the parent-document index (true_cite/backend/ingestion.py: self.docstore)
    docstore        \* the parent documents of the InMemoryStore, in insertion order

vars == <<auditVars, store, docstore, bulkVars, ingestVars>>

\* ------------------------------------------------------------------ values
\* A question value: a str, or a value of another type (what unvalidated
\* JSON may hold) that pydantic's `question: str` rejects.
StrQuestions == {[kind |-> "str", v |-> "q1"], [kind |-> "str", v |-> "q2"]}
NonStrQuestions == {[kind |-> "obj", v |-> "q3"]}
QuestionValues == StrQuestions \cup NonStrQuestions
NoQuestion == [kind |-> "none", v |-> ""]
IsStr(q) == q.kind = "str"

\* A chunk: its metadata, and n, its number within its document (its text).
Chunk(title, cat, src, n) ==
    [doc_title |-> title, category |-> cat, source_file |-> src, n |-> n]

\* What a retriever handed in by the caller may return: chunks of two files
\* and a chunk whose metadata holds no source_file.
StubChunks ==
    {Chunk("Policy", "General", "a.pdf", 1),
     Chunk("Policy", "General", "b.pdf", 1),
     Chunk("Policy", "General", None, 1)}
DocLists == SeqsUpTo(StubChunks, MaxDocs)

\* A retriever: its kind, the documents its BM25 part was built from, the k
\* of its BM25 and of its vector part, its weights in tenths (BM25, vector).
RetrieverObject(kind, bm25, bm25_k, vector_k, weights) ==
    [kind |-> kind, bm25 |-> bm25, bm25_k |-> bm25_k, vector_k |-> vector_k,
     weights |-> weights]
StubRetriever == RetrieverObject("stub", <<>>, 0, 0, <<>>)
NoRetriever == RetrieverObject("none", <<>>, 0, 0, <<>>)

RetrieverErrors == {"retriever unavailable"}
LLMErrors == {"llm quota exceeded"}
ValidationError == "validation error for AuditResult"

NoResult ==
    [question |-> NoQuestion, thinking |-> <<>>, answer |-> <<>>,
     status |-> <<>>, sources |-> <<>>]

\* --------------------------------------------------- auditor.py: run_audit
\* doc.metadata.get("source_file", "Unknown Source") per chunk
FormatDocs(ds) ==
    [i \in 1..Len(ds) |->
        IF ds[i].source_file = None THEN "Unknown Source" ELSE ds[i].source_file]

\* set([d.metadata.get("source_file") for d in docs])
SourceSet(ds) == {ds[i].source_file : i \in 1..Len(ds)}

\* list(set(...)): the set's elements once each, in the order the hash gives.
Orderings(S) ==
    {s \in SeqsUpTo(S, Cardinality(S)) : Len(s) = Cardinality(S) /\ Range(s) = S}

\* A slip: the list is taken without set().
UniqueSourcesNoSet(ds) == {[i \in 1..Len(ds) |-> ds[i].source_file]}

UniqueSources(ds) == Orderings(SourceSet(ds))

\* pydantic's validation of AuditResult: question: str, sources: List[str]
ValidAuditResult(r) ==
    /\ IsStr(r.question)
    /\ \A i \in 1..Len(r.sources) : r.sources[i] # None

SuccessResult(q, p, srcs) ==
    [question |-> q,
     thinking |-> p.thinking,
     answer |-> p.rationale \o <<"\n\n">> \o p.citation,
     status |-> p.status,
     sources |-> srcs]


ErrorResult(q, msg) ==
    [question |-> q,
     thinking |-> <<"Error during reasoning.">>,
     answer |-> <<"Error running audit: ", msg>>,
     status |-> <<"Error">>,
     sources |-> <<>>]

\* The call run_audit(q, r): the state at the top of the try block.
StartAudit(q, r) ==
    /\ apc' = "RETRIEVE"
    /\ question' = q
    /\ retriever' = r
    /\ docs' = <<>>
    /\ context_text' = <<>>
    /\ response_text' = <<>>
    /\ parsed' = DefaultSections
    /\ exc' = None
    /\ result' = NoResult
    /\ outcome' = "none"

\* docs = await retriever.ainvoke(question)
AuditRetrieve(lists) ==
    /\ apc = "RETRIEVE"
    /\ \/ \E d \in lists :
            /\ docs' = d
            /\ apc' = "FORMAT_CONTEXT"
            /\ UNCHANGED exc
       \/ \E m \in RetrieverErrors :
            /\ exc' = m
            /\ apc' = "ERROR"
            /\ UNCHANGED docs
    /\ UNCHANGED <<question, retriever, context_text, response_text, parsed,
                   result, outcome>>

\* context_text = self.format_docs(docs)
AuditFormatContext ==
    /\ apc = "FORMAT_CONTEXT"
    /\ context_text' = FormatDocs(docs)
    /\ apc' = "PROMPT"
    /\ UNCHANGED <<question, retriever, docs, response_text, parsed, exc,
                   result, outcome>>

\* response_text = await chain.ainvoke({context, question})
AuditPrompt(texts) ==
    /\ apc = "PROMPT"
    /\ \/ \E t \in texts :
            /\ response_text' = t
            /\ apc' = "PARSE"
            /\ UNCHANGED exc
       \/ \E m \in LLMErrors :
            /\ exc' = m
            /\ apc' = "ERROR"
            /\ UNCHANGED response_text
    /\ UNCHANGED <<question, retriever, docs, context_text, parsed, result,
                   outcome>>

\* parsed = self._parse_structured_response(response_text)
AuditParse ==
    /\ apc = "PARSE"
    /\ parsed' = ParseStructuredResponse(response_text)
    /\ apc' = "RESULT"
    /\ UNCHANGED <<question, retriever, docs, context_text, response_text,
                   exc, result, outcome>>

\* unique_sources = list(set(...)); result = AuditResult(...); return result
AuditResultStep ==
    /\ apc = "RESULT"
    /\ \E srcs \in UniqueSources(docs) :
         LET r == SuccessResult(question, parsed, srcs)
         IN IF ValidAuditResult(r)
            THEN /\ result' = r
                 /\ outcome' = "returned"
                 /\ apc' = "DONE"
                 /\ UNCHANGED exc
            ELSE /\ exc' = ValidationError
                 /\ apc' = "ERROR"
                 /\ UNCHANGED <<result, outcome>>
    /\ UNCHANGED <<question, retriever, docs, context_text, response_text,
                   parsed>>

\* except Exception as e: return AuditResult(..., status="Error", sources=[])
\* The handler's own AuditResult is validated too: a question that is no str
\* makes it raise, and that exception leaves run_audit.
AuditExcept ==
    /\ apc = "ERROR"
    /\ LET r == ErrorResult(question, exc)
       IN IF ValidAuditResult(r)
          THEN /\ result' = r
               /\ outcome' = "returned"
               /\ UNCHANGED exc
          ELSE /\ outcome' = "raised"
               /\ exc' = ValidationError
               /\ UNCHANGED result
    /\ apc' = "DONE"
    /\ UNCHANGED <<question, retriever, docs, context_text, response_text,
                   parsed>>

\* ------------------------------------------------- run_audit on its own
AuditIdle ==
    /\ apc = "idle"
    /\ question = NoQuestion
    /\ retriever = NoRetriever
    /\ docs = <<>>
    /\ context_text = <<>>
    /\ response_text = <<>>
    /\ parsed = DefaultSections
    /\ exc = None
    /\ result = NoResult
    /\ outcome = "none"


\* ------------------------------------------ ingestion.py: get_retriever
RETRIEVAL_K == 5

Min(a, b) == IF a < b THEN a ELSE b

\* The k best of a corpus for a query: min(k, n) of its entries, ranked by a
\* score the model does not compute, so in any order.
TopK(corpus, k) ==
    LET n == Min(k, Len(corpus))
        picks == {p \in SeqsUpTo(1..Len(corpus), n) :
                    Len(p) = n /\ Cardinality(Range(p)) = n}
    IN {[i \in 1..n |-> corpus[p[i]]] : p \in picks}

\* A slip: no retriever at all over an empty store.
GetRetrieverNoneWhenEmpty(st) ==
    IF st = <<>>
    THEN NoRetriever
    ELSE RetrieverObject("ensemble", st, RETRIEVAL_K, RETRIEVAL_K, <<3, 7>>)

\* A slip: the emptiness test the wrong way round.
GetRetrieverInverted(st) ==
    IF st # <<>>
    THEN RetrieverObject("vector", <<>>, 0, RETRIEVAL_K, <<>>)
    ELSE RetrieverObject("ensemble", st, RETRIEVAL_K, RETRIEVAL_K, <<3, 7>>)

\* all_docs = self.vectorstore.get(); the vector retriever alone over an
\* empty store, else the ensemble of BM25 over all_docs and the vector one.
GetRetriever(st) ==
    IF st = <<>>
    THEN RetrieverObject("vector", <<>>, 0, RETRIEVAL_K, <<>>)
    ELSE RetrieverObject("ensemble", st, RETRIEVAL_K, RETRIEVAL_K, <<3, 7>>)

\* `not retriever`: None is falsy; a retriever object defines neither
\* __bool__ nor __len__, so it is truthy.
Falsy(r) == r = NoRetriever

\* EnsembleRetriever: the two hit lists fused, one entry per page content.
Fuse(a, b) == Orderings(Range(a) \cup Range(b))

\* What retriever.ainvoke may return: the vector retriever reads the store as
\* it is now, BM25 the documents it was built from.
Retrievals(r, st) ==
    IF r.kind = "ensemble"
    THEN UNION {Fuse(a, b) : a \in TopK(r.bm25, r.bm25_k), b \in TopK(st, r.vector_k)}
    ELSE TopK(st, r.vector_k)

\* --------------------------------------------- ingestion.py: the tagger
\* What self.tagger_llm.invoke met, and what json.loads made of its content:
\* the call raised, the content is no JSON, or the JSON value: no object, an
\* object without the two keys, an object with both.
TaggerOutcomes == {"raise", "not_json", "json_not_object", "object_empty", "object_full"}

\* A value json.loads returns, as far as ingest_pdf reads it: a dict with
\* the keys it holds (None: key missing), or a value of another type.
Dict(title, cat) == [t |-> "dict", formal_title |-> title, category |-> cat]
NotADict == [t |-> "other", formal_title |-> None, category |-> None]
FormalTitle == "Remote Work Policy"
FormalCategory == "HR"

Fallback == Dict("Unknown Policy", "General")

\* try: ...; return json.loads(clean_json)  except Exception: return fallback
GetActualMetadata(tagger) ==
    CASE tagger = "raise" -> Fallback
      [] tagger = "not_json" -> Fallback
      [] tagger = "json_not_object" -> NotADict
      [] tagger = "object_empty" -> Dict(None, None)
      [] tagger = "object_full" -> Dict(FormalTitle, FormalCategory)

\* ------------------------------------------- ingestion.py: ingest_pdf
\* A page as the splitter sees it: without text it yields no chunk, with
\* text one.
PageKinds == {"blank", "text"}
ChunksOfPage(k) == IF k = "blank" THEN 0 ELSE 1

RECURSIVE SumSeq(_)
SumSeq(s) == IF s = <<>> THEN 0 ELSE Head(s) + SumSeq(Tail(s))

\* len(splitter.split_documents(pages))
ChunkCount(pages) == SumSeq([i \in 1..Len(pages) |-> ChunksOfPage(pages[i])])

\* What one ingest_pdf call meets: whether the loader reads the file, its
\* pages, the tagger's outcome, whether add_documents goes through.
PdfOutcome(load_ok, pages, tagger, add_ok) ==
    [load_ok |-> load_ok, pages |-> pages, tagger |-> tagger, add_ok |-> add_ok]
NoTagger == "not_called"
PdfOutcomes ==
    {PdfOutcome(FALSE, <<>>, NoTagger, FALSE), PdfOutcome(TRUE, <<>>, NoTagger, FALSE)}
    \cup {PdfOutcome(TRUE, p, t, a) :
            p \in SeqsUpTo(PageKinds, MaxPages) \ {<<>>},
            t \in TaggerOutcomes, a \in BOOLEAN}

\* doc_info.get(key, default)
DictGet(v, default) == IF v = None THEN default ELSE v

\* The chunks of one document, stamped with doc_title, category, source_file.
StampedChunks(info, original_name, n) ==
    [i \in 1..n |->
        Chunk(DictGet(info.formal_title, original_name),
              DictGet(info.category, "General"),
              original_name, i)]

\* ingest_pdf(file_path, original_name): the chunks it adds to the store;
\* its return value is their number. Every exception ends in `return 0`:
\* the loader's, doc_info.get on a value that is no dict, add_documents'.
IngestPdf(original_name, o) ==
    IF ~o.load_ok THEN <<>>
    ELSE IF o.pages = <<>> THEN <<>>                       \* if not pages: return 0
    ELSE LET info == GetActualMetadata(o.tagger)
         IN IF info.t # "dict" THEN <<>>                   \* AttributeError
            ELSE IF ~o.add_ok THEN <<>>                    \* add_documents raised
            ELSE StampedChunks(info, original_name, ChunkCount(o.pages))

\* ------------------------------------------- ingestion.py: ingest_zip
\* An archive entry: its name, and whether its data can be extracted.
Entry(name, ok) == [name |-> name, extract_ok |-> ok]
Names == {"a.pdf", "b.PDF", "notes.txt", "__MACOSX/._a.pdf"}

\* f.lower().endswith(".pdf")
LowerEndsWithPdf(name) == name \in {"a.pdf", "b.PDF", "__MACOSX/._a.pdf"}
\* f.startswith('__MACOSX')
StartsWithMacosx(name) == name = "__MACOSX/._a.pdf"

Entries == {Entry(n, ok) : n \in Names, ok \in BOOLEAN}

\* An upload: a ZIP with its entries, or a file zipfile cannot open.
Archive(valid, entries) == [valid |-> valid, entries |-> entries]
Archives ==
    {Archive(FALSE, <<>>)} \cup {Archive(TRUE, es) : es \in SeqsUpTo(Entries, MaxEntries)}
NoArchive == Archive(FALSE, <<>>)


\* [f for f in z.namelist() if f.lower().endswith(".pdf") and not f.startswith('__MACOSX')]
IsPdfFile(name) == LowerEndsWithPdf(name) /\ ~StartsWithMacosx(name)

PdfFiles(a) ==
    LET names == [i \in 1..Len(a.entries) |-> a.entries[i].name]
    IN SelectSeq(names, IsPdfFile)

\* z.extractall(tmp_dir): every entry of the archive, PDF or not.
ExtractAllOk(a) == \A i \in 1..Len(a.entries) : a.entries[i].extract_ok

\* Stores earlier uploads left: none, one document, two documents.
EarlierStores ==
    {<<>>,
     <<Chunk(FormalTitle, FormalCategory, "a.pdf", 1)>>,
     <<Chunk(FormalTitle, FormalCategory, "a.pdf", 1),
       Chunk("Unknown Policy", "General", "b.PDF", 1)>>}

NoLast == [name |-> "", outcome |-> PdfOutcome(FALSE, <<>>, NoTagger, FALSE),
           doc_info |-> NotADict, count |-> 0, added |-> 0]
NoIHttp == [code |-> 0, chunks_indexed |-> 0]

IngestIdle ==
    /\ ipc = "idle"
    /\ archive = NoArchive
    /\ pdf_files = <<>>
    /\ iidx = 0
    /\ total_chunks = 0
    /\ counts = <<>>
    /\ last = NoLast
    /\ ihttp = NoIHttp

NotIngest == UNCHANGED <<auditVars, bulkVars>>

\* POST /ingest/policies: ingest_zip opens the ZIP, selects the names and
\* extracts the archive; an exception here leaves ingest_zip and the handler.
IngestRequestOf(uploads) ==
    /\ ipc = "idle"
    /\ \E a \in uploads :
         /\ archive' = a
         /\ IF a.valid /\ ExtractAllOk(a)
            THEN /\ pdf_files' = PdfFiles(a)
                 /\ iidx' = 1
                 /\ ipc' = "loop"
                 /\ UNCHANGED ihttp
            ELSE /\ ipc' = "raised"
                 /\ ihttp' = [code |-> 500, chunks_indexed |-> 0]
                 /\ UNCHANGED <<pdf_files, iidx>>
    /\ total_chunks' = 0
    /\ counts' = <<>>
    /\ last' = NoLast
    /\ UNCHANGED <<store, docstore>>
    /\ NotIngest

IngestRequest == IngestRequestOf(Archives)

\* count = self.ingest_pdf(full_path, f_name); total_chunks += count
IngestPdfStepOf(outcomes) ==
    /\ ipc = "loop"
    /\ iidx <= Len(pdf_files)
    /\ \E o \in outcomes :
         LET added == IngestPdf(pdf_files[iidx], o)
         IN /\ Len(store) + Len(added) <= MaxStore
            /\ store' = store \o added
            /\ counts' = Append(counts, Len(added))
            /\ total_chunks' = total_chunks + Len(added)
            /\ last' = [name |-> pdf_files[iidx], outcome |-> o,
                        doc_info |-> IF o.load_ok /\ o.pages # <<>>
                                     THEN GetActualMetadata(o.tagger)
                                     ELSE NotADict,
                        count |-> Len(added), added |-> Len(added)]
    /\ iidx' = iidx + 1
    /\ UNCHANGED <<ipc, archive, pdf_files, ihttp, docstore>>
    /\ NotIngest

IngestPdfStep == IngestPdfStepOf(PdfOutcomes)

\* return total_chunks; the handler answers with it
IngestReturn ==
    /\ ipc = "loop"
    /\ iidx > Len(pdf_files)
    /\ ipc' = "done"
    /\ ihttp' = [code |-> 200, chunks_indexed |-> total_chunks]
    /\ UNCHANGED <<archive, pdf_files, iidx, total_chunks, counts, last, store, docstore>>
    /\ NotIngest

\* ------------------------- true_cite/backend/ingestion.py: ingest_pdf
\* The parent-document ingestor: its Chroma collection lives in a fresh
\* temporary directory, its parents in an InMemoryStore.
\* A page as the two splitters see it: no text, at most CHUNK_SIZE
\* characters, at most PARENT_CHUNK_SIZE, more than that.
TcPageKinds == {"blank", "text", "long", "huge"}

\* parent_splitter.split_documents([page]): the parents of one page.
ParentsOfPage(k) ==
    CASE k = "blank" -> <<>>
      [] k = "text" -> <<"text">>
      [] k = "long" -> <<"long">>
      [] k = "huge" -> <<"long", "text">>

RECURSIVE ParentDocs(_)
ParentDocs(pages) ==
    IF pages = <<>> THEN <<>>
    ELSE ParentsOfPage(Head(pages)) \o ParentDocs(Tail(pages))

\* len(child_splitter.split_documents([parent]))
ChildrenOfParent(k) == IF k = "text" THEN 1 ELSE 2

TcFilePaths == {"/tmp/a.pdf", "/tmp/b.PDF"}
Basename(path) == IF path = "/tmp/a.pdf" THEN "a.pdf" ELSE "b.PDF"

\* if not source_name: source_name = os.path.basename(file_path)
TcSourceName(file_path, source_name) ==
    IF source_name = None THEN Basename(file_path) ELSE source_name

\* What one call meets: whether the loader reads the file, its pages,
\* whether the vector store takes the children.
TcPdfOutcomes ==
    {PdfOutcome(FALSE, <<>>, NoTagger, FALSE)}
    \cup {PdfOutcome(TRUE, p, NoTagger, a) :
            p \in SeqsUpTo(TcPageKinds, MaxPages), a \in BOOLEAN}

TcNothing == [children |-> <<>>, parents |-> <<>>, count |-> 0]

\* ingest_pdf(file_path, source_name): retriever.add_documents(raw_docs,
\* ids=[one uuid per page]) splits the pages into parents, raises ValueError
\* when they are not as many as the ids, splits each parent into children,
\* adds the children to the vector store and then the parents to the
\* docstore; the call returns len(raw_docs), and 0 after any exception.
TcIngestPdf(source_name, o) ==
    IF ~o.load_ok THEN TcNothing
    ELSE LET parents == ParentDocs(o.pages)
             kids == SumSeq([i \in 1..Len(parents) |-> ChildrenOfParent(parents[i])])
         IN IF Len(parents) # Len(o.pages) THEN TcNothing
            ELSE IF ~o.add_ok THEN TcNothing
            ELSE [children |-> [i \in 1..kids |-> Chunk(None, None, source_name, i)],
                  parents |-> [i \in 1..Len(parents) |->
                                 [source_file |-> source_name, kind |-> parents[i]]],
                  count |-> Len(o.pages)]

\* A caller's ingestor.ingest_pdf(file_path, source_name)
TcIngestPdfCall ==
    /\ ipc = "idle"
    /\ Len(counts) < MaxCalls
    /\ \E path \in TcFilePaths, sn \in {None, "a.pdf"}, o \in TcPdfOutcomes :
         LET name == TcSourceName(path, sn)
             r == TcIngestPdf(name, o)
         IN /\ Len(store) + Len(r.children) <= MaxStore
            /\ store' = store \o r.children
            /\ docstore' = docstore \o r.parents
            /\ counts' = Append(counts, r.count)
            /\ last' = [name |-> name, outcome |-> o, doc_info |-> NotADict,
                        count |-> r.count, added |-> Len(r.children)]
    /\ UNCHANGED <<ipc, archive, pdf_files, iidx, total_chunks, ihttp>>
    /\ NotIngest

\* --------------------------------------- extractor.py: extract_from_file
\* What chain.invoke met: the LLM call raised, the JSON parser raised, or
\* the parsed JSON value (JsonOutputParser validates nothing): an array or
\* scalar, or an object whose "questions" is missing, a list, a str or a
\* number/null.
Chain(kind, jtype, qtype, items) ==
    [kind |-> kind, jtype |-> jtype, qtype |-> qtype, items |-> items]
NoChain == Chain("none", "", "", <<>>)
ChainOutcomes ==
    {Chain("llm_error", "", "", <<>>),
     Chain("bad_json", "", "", <<>>),
     Chain("json", "array", "", <<>>),
     Chain("json", "object", "missing", <<>>),
     Chain("json", "object", "num", <<>>)}
    \cup {Chain("json", "object", "list", qs) : qs \in SeqsUpTo(QuestionValues, MaxQuestions)}
    \cup {Chain("json", "object", "str", qs) : qs \in SeqsUpTo(StrQuestions, MaxQuestions)}

ExtractionInputs ==
    {[load_ok |-> FALSE, chain |-> NoChain]}
    \cup {[load_ok |-> TRUE, chain |-> c] : c \in ChainOutcomes}
NoExtraction == [load_ok |-> FALSE, chain |-> NoChain]

\* A Python sequence value: its type and its elements (a str's characters).
PyList(items) == [t |-> "list", items |-> items]
EmptyList == PyList(<<>>)

\* try: pages = loader.load(); result = chain.invoke(...);
\*      questions = result.get("questions", []); log len(questions); return
\* except Exception: return []
ExtractFromFile(x) ==
    IF ~x.load_ok THEN EmptyList                      \* loader.load() raised
    ELSE IF x.chain.kind # "json" THEN EmptyList      \* chain.invoke raised
    ELSE IF x.chain.jtype # "object" THEN EmptyList   \* no .get on it
    ELSE IF x.chain.qtype = "missing" THEN EmptyList  \* the default []
    ELSE IF x.chain.qtype = "num" THEN EmptyList      \* len() raised
    ELSE [t |-> x.chain.qtype, items |-> x.chain.items]

\* ------------------------------------- main.py: run_bulk_audit_stream
NoHttp == [code |-> 0, detail |-> ""]
StreamingResponse == [code |-> 200, detail |-> "application/x-ndjson"]
RejectNoPolicies ==
    [code |-> 400, detail |-> "No policies indexed. Please upload policies first."]

\* A slip: the empty list is met by an unhandled exception.
RejectNoQuestionsUnhandled == [code |-> 500, detail |-> "Internal Server Error"]

RejectNoQuestions == [code |-> 400, detail |-> "Could not extract any questions."]

MetaRecord(n) == [type |-> "meta", total |-> n]
Pad == [type |-> "pad"]
ResultRecord(r) ==
    [type |-> "result", question |-> r.question, thinking |-> r.thinking,
     answer |-> r.answer, status |-> r.status, sources |-> r.sources]
GenErrorRecord(q, msg) ==
    [type |-> "result", question |-> q,
     thinking |-> <<"Error during processing.">>,
     answer |-> <<"Internal Server Error: ", msg>>,
     status |-> <<"Error">>, sources |-> <<>>]

AuditUnchanged == UNCHANGED auditVars
IngestUnchanged == UNCHANGED ingestVars

\* The handler, to its return or its HTTPException: it awaits nothing.
BulkRequest ==
    /\ bpc = "idle"
    /\ \E x \in ExtractionInputs :
         LET r == GetRetriever(store)
             qs == ExtractFromFile(x)
         IN /\ bretriever' = r
            /\ IF Falsy(r)
               THEN /\ http' = RejectNoPolicies
                    /\ bpc' = "rejected"
                    /\ UNCHANGED <<extraction, questions>>
               ELSE /\ extraction' = x
                    /\ questions' = qs
                    /\ IF qs.items = <<>>          \* if not questions
                       THEN /\ http' = RejectNoQuestions
                            /\ bpc' = "rejected"
                       ELSE /\ http' = StreamingResponse
                            /\ bpc' = "meta"
    /\ UNCHANGED <<stream, qidx, audits_run, store, docstore>>
    /\ AuditUnchanged
    /\ IngestUnchanged

\* yield json.dumps({"type": "meta", "total": len(questions)})
GenMeta ==
    /\ bpc = "meta"
    /\ stream' = Append(stream, MetaRecord(Len(questions.items)))
    /\ qidx' = 1
    /\ bpc' = "loop"
    /\ UNCHANGED <<extraction, questions, bretriever, http, audits_run, store, docstore>>
    /\ AuditUnchanged
    /\ IngestUnchanged

\* A slip: the retriever is built anew for each question.
GenPadRebuild ==
    /\ bpc = "loop"
    /\ qidx <= Len(questions.items)
    /\ stream' = Append(stream, Pad)
    /\ StartAudit(questions.items[qidx], GetRetriever(store))
    /\ audits_run' = audits_run + 1
    /\ bpc' = "audit"
    /\ UNCHANGED <<extraction, questions, bretriever, http, qidx, store, docstore>>
    /\ IngestUnchanged

\* for q_text in questions: yield " "; res = await run_audit(q_text, retriever)
GenPad ==
    /\ bpc = "loop"
    /\ qidx <= Len(questions.items)
    /\ stream' = Append(stream, Pad)
    /\ StartAudit(questions.items[qidx], bretriever)
    /\ audits_run' = audits_run + 1
    /\ bpc' = "audit"
    /\ UNCHANGED <<extraction, questions, bretriever, http, qidx, store, docstore>>
    /\ IngestUnchanged

\* A slip: no try/except around the audit, so its exception ends the stream.
GenResultNoExcept ==
    /\ bpc = "audit"
    /\ apc = "DONE"
    /\ IF outcome = "returned"
       THEN /\ stream' = Append(stream, ResultRecord(result))
            /\ qidx' = qidx + 1
            /\ bpc' = "loop"
       ELSE /\ bpc' = "end"
            /\ UNCHANGED <<stream, qidx>>
    /\ UNCHANGED <<extraction, questions, bretriever, http, audits_run, store, docstore>>
    /\ AuditUnchanged
    /\ IngestUnchanged

\* yield the result record; except Exception: yield an Error record
GenResult ==
    /\ bpc = "audit"
    /\ apc = "DONE"
    /\ stream' = Append(stream,
                        IF outcome = "returned"
                        THEN ResultRecord(result)
                        ELSE GenErrorRecord(questions.items[qidx], exc))
    /\ qidx' = qidx + 1
    /\ bpc' = "loop"
    /\ UNCHANGED <<extraction, questions, bretriever, http, audits_run, store, docstore>>
    /\ AuditUnchanged
    /\ IngestUnchanged

\* the for loop is exhausted: the generator returns
GenEnd ==
    /\ bpc = "loop"
    /\ qidx > Len(questions.items)
    /\ bpc' = "end"
    /\ UNCHANGED <<extraction, questions, bretriever, http, stream, qidx,
                   audits_run, store, docstore>>
    /\ AuditUnchanged
    /\ IngestUnchanged

\* The answers the LLM gives in a bulk run: one with a status, one without.
BulkTexts == {<<MSTATUS, WS, "Compliant">>, <<"Maybe">>}

BulkIdle ==
    /\ bpc = "idle"
    /\ extraction = NoExtraction
    /\ questions = EmptyList
    /\ bretriever = NoRetriever
    /\ http = NoHttp
    /\ stream = <<>>
    /\ qidx = 0
    /\ audits_run = 0

\* An audit step leaves the index and the bulk request as they are.
RestUnchanged == UNCHANGED <<store, docstore, bulkVars, ingestVars>>

InitBulk ==
    /\ AuditIdle
    /\ BulkIdle
    /\ IngestIdle
    /\ store \in EarlierStores
    /\ docstore = <<>>

NextBulk ==
    \/ BulkRequest
    \/ GenMeta
    \/ GenPad
    \/ AuditRetrieve(Retrievals(retriever, store)) /\ RestUnchanged
    \/ AuditFormatContext /\ RestUnchanged
    \/ AuditPrompt(BulkTexts) /\ RestUnchanged
    \/ AuditParse /\ RestUnchanged
    \/ AuditResultStep /\ RestUnchanged
    \/ AuditExcept /\ RestUnchanged
    \/ GenResult
    \/ GenEnd

SpecBulk == InitBulk /\ [][NextBulk]_vars

\* A caller's run_audit(question: str, retriever) with a retriever of its own.
AuditCall ==
    /\ apc = "idle"
    /\ \E q \in StrQuestions : StartAudit(q, StubRetriever)

InitAudit ==
    /\ AuditIdle
    /\ BulkIdle
    /\ IngestIdle
    /\ store = <<>>
    /\ docstore = <<>>

NextAudit ==
    \/ AuditCall /\ RestUnchanged
    \/ AuditRetrieve(DocLists) /\ RestUnchanged
    \/ AuditFormatContext /\ RestUnchanged
    \/ AuditPrompt(Texts) /\ RestUnchanged
    \/ AuditParse /\ RestUnchanged
    \/ AuditResultStep /\ RestUnchanged
    \/ AuditExcept /\ RestUnchanged

SpecAudit == InitAudit /\ [][NextAudit]_vars

InitIngest ==
    /\ AuditIdle
    /\ BulkIdle
    /\ IngestIdle
    /\ store \in EarlierStores
    /\ docstore = <<>>

NextIngest ==
    \/ IngestRequest
    \/ IngestPdfStep
    \/ IngestReturn

SpecIngest == InitIngest /\ [][NextIngest]_vars

\* ------------------- main.py: /audit/run while /ingest/policies runs
\* Both handlers are coroutines of one event loop. ingest_zip is a plain
\* call, so while it runs the loop runs nothing else; a retrieval already
\* handed to a worker thread by retriever.ainvoke reads the store meanwhile.
LoopFree == ipc # "loop"

\* The uploads and the documents of the concurrent ingestion request.
ConcurrentUploads ==
    {Archive(TRUE, <<Entry("a.pdf", TRUE)>>),
     Archive(TRUE, <<Entry("a.pdf", TRUE), Entry("b.PDF", TRUE)>>)}
ConcurrentOutcomes ==
    {PdfOutcome(TRUE, <<"text">>, "object_full", TRUE),
     PdfOutcome(FALSE, <<>>, NoTagger, FALSE)}

InitConcurrent ==
    /\ AuditIdle
    /\ BulkIdle
    /\ IngestIdle
    /\ store \in EarlierStores
    /\ docstore = <<>>

NextConcurrent ==
    \/ LoopFree /\ BulkRequest
    \/ LoopFree /\ GenMeta
    \/ LoopFree /\ GenPad
    \/ AuditRetrieve(Retrievals(retriever, store)) /\ RestUnchanged
    \/ LoopFree /\ AuditFormatContext /\ RestUnchanged
    \/ LoopFree /\ AuditPrompt(BulkTexts) /\ RestUnchanged
    \/ LoopFree /\ AuditParse /\ RestUnchanged
    \/ LoopFree /\ AuditResultStep /\ RestUnchanged
    \/ LoopFree /\ AuditExcept /\ RestUnchanged
    \/ LoopFree /\ GenResult
    \/ LoopFree /\ GenEnd
    \/ IngestRequestOf(ConcurrentUploads)
    \/ IngestPdfStepOf(ConcurrentOutcomes)
    \/ IngestReturn

SpecConcurrent == InitConcurrent /\ [][NextConcurrent]_vars

\* ------------------------------------------ main.py: POST /audit/ask
AuditResponse == [code |-> 200, detail |-> "AuditResponse"]
RejectAskNoPolicies == [code |-> 400, detail |-> "No policies indexed."]
InternalServerError == [code |-> 500, detail |-> "Internal Server Error"]

\* retriever = global_ingestor.get_retriever(); if not retriever: raise
\* HTTPException(400); result = await auditor_engine.run_audit(question, retriever)
AskRequest ==
    /\ bpc = "idle"
    /\ \E q \in StrQuestions :
         LET r == GetRetriever(store)
         IN /\ bretriever' = r
            /\ IF Falsy(r)
               THEN /\ http' = RejectAskNoPolicies
                    /\ bpc' = "rejected"
                    /\ UNCHANGED audits_run
                    /\ AuditUnchanged
               ELSE /\ StartAudit(q, r)
                    /\ audits_run' = audits_run + 1
                    /\ bpc' = "ask"
                    /\ UNCHANGED http
    /\ UNCHANGED <<extraction, questions, stream, qidx, store, docstore>>
    /\ IngestUnchanged

\* return AuditResponse(question=result.question, ...)
AskReturn ==
    /\ bpc = "ask"
    /\ apc = "DONE"
    /\ http' = IF outcome = "returned" THEN AuditResponse ELSE InternalServerError
    /\ bpc' = "answered"
    /\ UNCHANGED <<extraction, questions, bretriever, stream, qidx, audits_run,
                   store, docstore>>
    /\ AuditUnchanged
    /\ IngestUnchanged

\* The index after repeated uploads of two one-chunk documents.
Corpora ==
    SeqsUpTo({Chunk(FormalTitle, FormalCategory, "a.pdf", 1),
              Chunk("Unknown Policy", "General", "b.PDF", 1)}, MaxCorpus)

InitAsk ==
    /\ AuditIdle
    /\ BulkIdle
    /\ IngestIdle
    /\ store \in Corpora
    /\ docstore = <<>>

NextAsk ==
    \/ AskRequest
    \/ AuditRetrieve(Retrievals(retriever, store)) /\ RestUnchanged
    \/ AuditFormatContext /\ RestUnchanged
    \/ AuditPrompt(BulkTexts) /\ RestUnchanged
    \/ AuditParse /\ RestUnchanged
    \/ AuditResultStep /\ RestUnchanged
    \/ AuditExcept /\ RestUnchanged
    \/ AskReturn

SpecAsk == InitAsk /\ [][NextAsk]_vars

\* One request to either audit endpoint, over any index.
InitEndpoints ==
    /\ AuditIdle
    /\ BulkIdle
    /\ IngestIdle
    /\ store \in EarlierStores
    /\ docstore = <<>>

NextEndpoints ==
    \/ AskRequest
    \/ AskReturn
    \/ BulkRequest
    \/ GenMeta
    \/ GenPad
    \/ AuditRetrieve(Retrievals(retriever, store)) /\ RestUnchanged
    \/ AuditFormatContext /\ RestUnchanged
    \/ AuditPrompt(BulkTexts) /\ RestUnchanged
    \/ AuditParse /\ RestUnchanged
    \/ AuditResultStep /\ RestUnchanged
    \/ AuditExcept /\ RestUnchanged
    \/ GenResult
    \/ GenEnd

SpecEndpoints == InitEndpoints /\ [][NextEndpoints]_vars

\* A fresh parent-document ingestor and a caller's ingest_pdf calls.
InitTrueCite ==
    /\ AuditIdle
    /\ BulkIdle
    /\ IngestIdle
    /\ store = <<>>
    /\ docstore = <<>>

NextTrueCite == TcIngestPdfCall

SpecTrueCite == InitTrueCite /\ [][NextTrueCite]_vars

\* ================================================================ claims
\* The LLM answered this call: the try block got past chain.ainvoke.
LLMReturned ==
    \/ apc \in {"PARSE", "RESULT"}
    \/ apc \in {"ERROR", "DONE"} /\ exc \in {None, ValidationError}

\* C1: run_audit never lets an exception out: a finished call has returned
\* an AuditResult, and when a step raised, that result has status Error, no
\* sources, the call's question, and the exception's message in its answer.
InvC1 ==
    apc = "DONE" =>
        /\ outcome = "returned"
        /\ exc # None =>
            /\ result.status = <<"Error">>
            /\ result.sources = <<>>
            /\ result.question = question
            /\ exc \in Range(result.answer)

BetweenMarkers(text, marker) ==
    LET rest == SubSeq(text, FirstIndex(text, marker) + 1, Len(text))
        stops == {i \in 1..Len(rest) : rest[i] \in Markers}
        stop == IF stops = {} THEN Len(rest) + 1
                ELSE CHOOSE i \in stops : \A j \in stops : i <= j
    IN Strip(SubSeq(rest, 1, stop - 1))

\* C3: each section whose marker occurs is the text between that marker and
\* the next marker, so no section holds a marker or the text of a later one.
InvC3 ==
    apc = "RESULT" =>
        /\ Contains(response_text, MTHINKING) =>
              parsed.thinking = BetweenMarkers(response_text, MTHINKING)
        /\ Contains(response_text, MSTATUS) =>
              parsed.status = BetweenMarkers(response_text, MSTATUS)
        /\ Contains(response_text, MRATIONALE) =>
              parsed.rationale = BetweenMarkers(response_text, MRATIONALE)
        /\ Contains(response_text, MCITATION) =>
              parsed.citation = BetweenMarkers(response_text, MCITATION)

\* C4: a section whose marker is absent keeps its default, and a call whose
\* LLM answer has no STATUS marker returns a result with status Unknown.
InvC4 ==
    /\ apc = "RESULT" =>
        /\ ~Contains(response_text, MTHINKING) => parsed.thinking = DefaultSections.thinking
        /\ ~Contains(response_text, MSTATUS) => parsed.status = DefaultSections.status
        /\ ~Contains(response_text, MRATIONALE) => parsed.rationale = DefaultSections.rationale
        /\ ~Contains(response_text, MCITATION) => parsed.citation = DefaultSections.citation
    /\ (apc = "DONE" /\ LLMReturned /\ ~Contains(response_text, MSTATUS)) =>
        /\ outcome = "returned"
        /\ result.status = <<"Unknown">>

StatusValues ==
    {<<"Compliant">>, <<"Non-Compliant">>, <<"Partial">>, <<"Missing Info">>,
     <<"Error">>, <<"Unknown">>}

\* C5: the status of every returned AuditResult is one of the six values.
InvC5 ==
    (apc = "DONE" /\ outcome = "returned") => result.status \in StatusValues

\* The records of the stream: its units without the " " padding.
IsRecord(u) == u.type # "pad"
Records == SelectSeq(stream, IsRecord)

\* C6: the stream is one meta record with the number of questions, then one
\* result record per question audited so far, in the questions' order; all
\* of them once the generator has ended; a question whose audit failed or
\* raised has an Error record without sources, and the stream goes on.
ThmC6 ==
    bpc \in {"loop", "audit", "end"} =>
        /\ Len(Records) = qidx
        /\ Records[1] = MetaRecord(Len(questions.items))
        /\ \A i \in 2..Len(Records) :
              /\ Records[i].type = "result"
              /\ Records[i].question = questions.items[i - 1]
        /\ bpc = "end" => Len(Records) = Len(questions.items) + 1
        /\ (bpc = "loop" /\ qidx > 1 /\ (outcome = "raised" \/ exc # None)) =>
              /\ Records[qidx].status = <<"Error">>
              /\ Records[qidx].sources = <<>>

\* C6's case: the first question's audit raised, its record is an Error
\* record, and the second question's record follows it.
WitC6 ==
    /\ bpc = "end"
    /\ Len(questions.items) = 2
    /\ ~IsStr(questions.items[1])
    /\ Len(Records) = 3
    /\ Records[2].status = <<"Error">>
    /\ Records[2].answer[1] = "Internal Server Error: "
    /\ Records[3].status = <<"Compliant">>

\* C7: when the extractor returned nothing, the request is rejected with a
\* 400, no audit was run and no record was produced.
ThmC7 ==
    (bpc # "idle" /\ questions.items = <<>>) =>
        /\ bpc = "rejected"
        /\ http.code = 400
        /\ stream = <<>>
        /\ audits_run = 0
        /\ apc = "idle"

\* C7's case: the LLM answered {"questions": []}.
WitC7 ==
    /\ bpc = "rejected"
    /\ extraction.load_ok
    /\ extraction.chain = Chain("json", "object", "list", <<>>)
    /\ questions = EmptyList
    /\ http = RejectNoQuestions

\* The extractor met a JSON object whose "questions" is a list.
GotQuestionList ==
    /\ extraction.load_ok
    /\ extraction.chain.kind = "json"
    /\ extraction.chain.jtype = "object"
    /\ extraction.chain.qtype = "list"

\* C8: extract_from_file returns the parsed list, in its order, when the
\* chain gave an object with a questions list, and an empty sequence else.
InvC8 ==
    bpc # "idle" =>
        IF GotQuestionList
        THEN questions = PyList(extraction.chain.items)
        ELSE questions.items = <<>>

\* C9: ingest_zip of a ZIP returns; it has called ingest_pdf for every PDF
\* entry, whatever failed for another entry, and its total is the sum of
\* the counts ingest_pdf returned.
InvC9 ==
    (ipc \in {"done", "raised"} /\ archive.valid) =>
        /\ ipc = "done"
        /\ Len(counts) = Len(PdfFiles(archive))
        /\ total_chunks = SumSeq(counts)
        /\ ihttp = [code |-> 200, chunks_indexed |-> total_chunks]

TaggingFailures == {"raise", "not_json", "json_not_object", "object_empty"}

\* C10: when the tagger failed or gave no object with the two keys, the
\* metadata is the fallback pair, and a readable PDF whose pages hold text
\* is indexed with it: ingest_pdf returns the number of its chunks.
InvC10 ==
    (/\ last.name # ""
     /\ last.outcome.load_ok
     /\ ChunkCount(last.outcome.pages) > 0
     /\ last.outcome.add_ok
     /\ last.outcome.tagger \in TaggingFailures) =>
        /\ last.doc_info = Fallback
        /\ last.count = ChunkCount(last.outcome.pages)
        /\ last.count > 0
        /\ SubSeq(store, Len(store) - last.count + 1, Len(store))
              = StampedChunks(Fallback, last.name, last.count)

\* C11: ingestion only appends: a call leaves the entries the index holds
\* where they are, the index grows by exactly the count the call returns,
\* and a call that meets the same document as the call before it adds as
\* many entries again as that call added.
StepC11 ==
    [][counts' # counts =>
          /\ Len(store') >= Len(store)
          /\ SubSeq(store', 1, Len(store)) = store
          /\ Len(store') - Len(store) = SumSeq(counts') - SumSeq(counts)
          /\ (last.name # "" /\ last'.name = last.name
                /\ last'.outcome = last.outcome) =>
                Len(store') - Len(store) = last.added]_vars

\* C12: the retriever get_retriever built is the vector retriever alone
\* exactly when the store was empty; otherwise it is the ensemble of BM25
\* over all documents of the store and the vector retriever, weighted 0.3
\* and 0.7; neither part returns more than RETRIEVAL_K documents, and a
\* retrieval over a store that holds documents returns some.
ThmC12 ==
    bpc = "ask" =>
        /\ retriever = bretriever
        /\ retriever.kind = "vector" <=> store = <<>>
        /\ retriever.kind # "vector" =>
              /\ retriever.kind = "ensemble"
              /\ retriever.bm25 = store
              /\ retriever.weights = <<3, 7>>
        /\ apc = "RETRIEVE" =>
              /\ \A a \in TopK(retriever.bm25, retriever.bm25_k) :
                    Len(a) <= RETRIEVAL_K
              /\ \A b \in TopK(store, retriever.vector_k) : Len(b) <= RETRIEVAL_K
        /\ (apc \in {"FORMAT_CONTEXT", "PROMPT", "PARSE", "RESULT"} /\ store # <<>>) =>
              docs # <<>>

\* C12's case: an ensemble over a store of more than RETRIEVAL_K documents
\* returned documents of both files.
WitC12 ==
    /\ bpc = "ask"
    /\ apc = "FORMAT_CONTEXT"
    /\ retriever.kind = "ensemble"
    /\ Len(retriever.bm25) > RETRIEVAL_K
    /\ Len(docs) = 2

\* The order of the steps of one call: each step leads to the next one or,
\* when it raises, to ERROR; ERROR leads to the end of the call only.
StepOrder ==
    {<<"RETRIEVE", "FORMAT_CONTEXT">>, <<"FORMAT_CONTEXT", "PROMPT">>,
     <<"PROMPT", "PARSE">>, <<"PARSE", "RESULT">>, <<"RESULT", "DONE">>,
     <<"ERROR", "DONE">>}
    \cup {<<s, "ERROR">> : s \in {"RETRIEVE", "FORMAT_CONTEXT", "PROMPT", "PARSE", "RESULT"}}
    \cup {<<s, "RETRIEVE">> : s \in {"idle", "DONE"}}

\* C13: a call goes through RETRIEVE, FORMAT_CONTEXT, PROMPT, PARSE, RESULT
\* in this order; the LLM is asked only after the retriever returned and its
\* answer is parsed only after it returned; after a failed step only the
\* error result is built; and the call ends with one AuditResult returned.
StepC13 ==
    [][apc' # apc =>
          /\ <<apc, apc'>> \in StepOrder
          /\ apc' = "PROMPT" => (exc = None /\ docs' = docs)
          /\ apc' = "PARSE" => exc' = None
          /\ response_text' # response_text => (apc = "PROMPT" \/ apc' = "RETRIEVE")
          /\ parsed' # parsed => (apc = "PARSE" \/ apc' = "RETRIEVE")
          /\ result' # result => apc' \in {"DONE", "RETRIEVE"}
          /\ (apc = "ERROR" /\ outcome' = "returned") =>
                result' = ErrorResult(question, exc)
          /\ apc' = "DONE" => (outcome' = "returned" /\ result' # NoResult)]_vars

\* C14: the handler builds the retriever once, from the store as it is
\* then, and every question of the stream is audited with that retriever:
\* its BM25 part keeps the documents it was built from (none when the store
\* was empty, and then the retriever stays the vector one) whatever is
\* ingested meanwhile, while what a retrieval returns comes from those
\* documents and from the store as it is at the retrieval.
StepC14 ==
    [][/\ (bpc = "idle" /\ bpc' # "idle") =>
             /\ bretriever'.kind = "vector" <=> store = <<>>
             /\ bretriever'.bm25 = store
       /\ bpc # "idle" => bretriever' = bretriever
       /\ (bpc = "loop" /\ bpc' = "audit") => retriever' = bretriever
       /\ bpc = "audit" => retriever' = retriever
       /\ (bpc = "audit" /\ apc = "RETRIEVE" /\ apc' = "FORMAT_CONTEXT") =>
             /\ Range(docs') \subseteq Range(retriever.bm25) \cup Range(store)
             /\ retriever.kind = "vector" => docs' \in TopK(store, RETRIEVAL_K)
             /\ store # <<>> => docs' # <<>>]_vars

\* C14's case: the store was empty when the retriever was built, a document
\* was ingested meanwhile, and the retrieval of the second question, with the
\* vector retriever alone, returned its chunk.
WitC14 ==
    /\ bpc = "audit"
    /\ qidx = 2
    /\ apc = "FORMAT_CONTEXT"
    /\ bretriever.kind = "vector"
    /\ retriever = bretriever
    /\ ipc = "done"
    /\ Len(store) = 1
    /\ docs = store

\* C15: whatever the index holds, get_retriever gives a retriever object,
\* neither endpoint answers "No policies indexed", an ask request goes on
\* to run_audit, a bulk request is rejected only for want of questions, and
\* every run_audit call gets the retriever the handler built.
ThmC15 ==
    /\ http \notin {RejectNoPolicies, RejectAskNoPolicies}
    /\ bpc # "idle" => bretriever.kind \in {"vector", "ensemble"}
    /\ bpc = "rejected" => http = RejectNoQuestions
    /\ bpc \in {"ask", "answered"} => (audits_run = 1 /\ apc # "idle")
    /\ bpc \in {"ask", "audit"} => retriever = bretriever
    /\ bpc = "end" => audits_run = Len(questions.items)

\* C15's case: a question asked over the empty index was audited with the
\* vector retriever and answered.
WitC15 ==
    /\ store = <<>>
    /\ bpc = "answered"
    /\ http = AuditResponse
    /\ retriever.kind = "vector"
    /\ outcome = "returned"
    /\ docs = <<>>

====
